---- MODULE Spec2Model ----
(***************************************************************************)
(* Model of the Balloons & Blazes scene server (src/server/index.js):      *)
(* the hourly snapshot fetcher, the point normalizer, the flight           *)
(* reconstructor, the bounding-region calculator, the fire-feed fetcher,   *)
(* the proximity correlator and the GET /api/scene handler with its        *)
(* five-minute cache.                                                      *)
(*                                                                         *)
(* Time is Date.now() in milliseconds.  An ISO-8601 timestamp string is    *)
(* represented by the millisecond instant it denotes: toISOString and      *)
(* new Date(iso) are inverse to each other at millisecond resolution and   *)
(* the code only ever compares timestamps after parsing them back.         *)
(***************************************************************************)
EXTENDS Integers, Sequences, FiniteSets, TLC

(***************************************************************************)
(* Bounds of the model.                                                    *)
(***************************************************************************)
\* hours fetched per build in the server specification (24 in the code)
NumHours == 2
\* hours fetched per build in the pipeline specification (24 in the code)
FeedHours == 5
\* GET /api/scene requests in flight at once
NumReq == 2
\* clock advances in one behaviour
MaxTicks == 2
\* Date.now() when the process starts
StartTime == 100000000

(***************************************************************************)
(* Program constants.                                                      *)
(***************************************************************************)
TTL == 5 * 60 * 1000
HourMs == 3600000
MARGIN == 1
MAX_FIRES == 300
EveryNth == 3

(***************************************************************************)
(* JavaScript values, as JSON.parse can produce them.  A number is finite  *)
(* or, for a literal that overflows (1e999), an infinity.                  *)
(***************************************************************************)
Null == [type |-> "null"]
Undefined == [type |-> "undefined"]
Num(n) == [type |-> "number", v |-> n]
PosInf == [type |-> "number", inf |-> 1]
NegInf == [type |-> "number", inf |-> -1]
Str(s) == [type |-> "string", v |-> s]
Arr(items) == [type |-> "array", items |-> items]
Obj(fields) == [type |-> "object", fields |-> fields]

TypeOf(x) == x.type
IsArray(x) == x.type = "array"
IsFiniteNum(x) == x.type = "number" /\ "v" \in DOMAIN x
\* a ?? b
Nullish(a, b) == IF a = Null \/ a = Undefined THEN b ELSE a
\* raw.f for a non-null raw: a missing property, or any property of a
\* primitive, reads as undefined
Prop(raw, f) ==
    IF raw.type = "object" /\ f \in DOMAIN raw.fields THEN raw.fields[f] ELSE Undefined
\* arr[i] of a destructuring pattern (i counted from 1)
Elem(arr, i) == IF i <= Len(arr.items) THEN arr.items[i] ELSE Undefined
\* String(id)
ToStr(x) ==
    CASE x.type = "string" -> x.v
      [] IsFiniteNum(x) -> ToString(x.v)
      [] OTHER -> x.type

\* order of IEEE numbers without NaN
JsLE(a, b) ==
    IF IsFiniteNum(a)
    THEN IF IsFiniteNum(b) THEN a.v <= b.v ELSE b.inf = 1
    ELSE IF a.inf = -1 THEN TRUE ELSE (~IsFiniteNum(b) /\ b.inf = 1)
JsMin(a, b) == IF JsLE(a, b) THEN a ELSE b
JsMax(a, b) == IF JsLE(a, b) THEN b ELSE a
JsAdd(a, k) == IF IsFiniteNum(a) THEN Num(a.v + k) ELSE a

(***************************************************************************)
(* fetchHourSnapshot: what one GET of an hourly document can come to.      *)
(***************************************************************************)
TransportError == [kind |-> "transport_error"]
\* a non-success status; the error document may itself be JSON
HttpError(b) == [kind |-> "http", ok |-> FALSE, json |-> TRUE, body |-> b]
Unparsable == [kind |-> "http", ok |-> TRUE, json |-> FALSE]
HttpBody(b) == [kind |-> "http", ok |-> TRUE, json |-> TRUE, body |-> b]

\* fetchHourSnapshot without its check of res.ok
fetchHourSnapshotNoStatusCheck(response) ==
    IF response.kind = "transport_error" THEN Null
    ELSE IF ~response.json THEN Null
    ELSE response.body

fetchHourSnapshot(response) ==
    IF response.kind = "transport_error" THEN Null
    ELSE IF ~response.ok THEN Null
    ELSE IF ~response.json THEN Null
    ELSE response.body

(***************************************************************************)
(* normalizePoint                                                          *)
(***************************************************************************)
BalloonId(index) == "balloon-" \o ToString(index)

NumberOrNull(x) == IF TypeOf(x) = "number" THEN x ELSE Null

normalizePointArray(raw, timestamp, index) ==
    LET lat == Elem(raw, 1)
        lon == Elem(raw, 2)
        altitude == Elem(raw, 3)
    IN  IF TypeOf(lat) # "number" \/ TypeOf(lon) # "number" THEN Null
        ELSE [id |-> BalloonId(index), lat |-> lat, lon |-> lon,
              altitude |-> NumberOrNull(altitude), timestamp |-> timestamp]

normalizePointObject(raw, timestamp, index) ==
    LET id == Nullish(Prop(raw, "id"), Str(BalloonId(index)))
        lat == Nullish(Prop(raw, "lat"), Prop(raw, "latitude"))
        lon == Nullish(Prop(raw, "lon"), Prop(raw, "longitude"))
        altitude == Nullish(Nullish(Prop(raw, "alt"), Prop(raw, "altitude")), Null)
    IN  IF TypeOf(lat) # "number" \/ TypeOf(lon) # "number" THEN Null
        ELSE [id |-> ToStr(id), lat |-> lat, lon |-> lon,
              altitude |-> NumberOrNull(altitude), timestamp |-> timestamp]

\* Reading a property of null throws a TypeError, which the catch turns
\* into null.
normalizePoint(raw, timestamp, index) ==
    IF IsArray(raw) THEN normalizePointArray(raw, timestamp, index)
    ELSE IF raw = Null THEN Null
    ELSE normalizePointObject(raw, timestamp, index)

(***************************************************************************)
(* downsample                                                              *)
(***************************************************************************)
RECURSIVE EveryFrom(_, _, _)
EveryFrom(arr, i, every) ==
    IF i > Len(arr) THEN <<>>
    ELSE <<arr[i]>> \o EveryFrom(arr, i + every, every)

downsample(arr, every) ==
    IF Len(arr) <= 3 THEN arr ELSE EveryFrom(arr, 1, every)

(***************************************************************************)
(* loadBalloonFlights, after the 24 fetches have settled                    *)
(***************************************************************************)
\* the points of one snapshot, in forEach order, from record i on
RECURSIVE SnapshotPoints(_, _, _)
SnapshotPoints(snapshot, timestamp, i) ==
    IF i > Len(snapshot.items) THEN <<>>
    ELSE LET pt == normalizePoint(snapshot.items[i], timestamp, i - 1)
         IN  (IF pt = Null THEN <<>> ELSE <<pt>>)
             \o SnapshotPoints(snapshot, timestamp, i + 1)

\* a snapshot that is null or no array is skipped
UsableSnapshot(snapshot) == IsArray(snapshot)

\* the points of all snapshots in the order they are pushed: hour by hour;
\* snapshots[h + 1] is the snapshot of hour h
RECURSIVE AllPoints(_, _, _)
AllPoints(snapshots, now, h) ==
    IF h >= Len(snapshots) THEN <<>>
    ELSE (IF UsableSnapshot(snapshots[h + 1])
          THEN SnapshotPoints(snapshots[h + 1], now - h * HourMs, 1)
          ELSE <<>>)
         \o AllPoints(snapshots, now, h + 1)

\* the keys of the histories Map, in insertion order
RECURSIVE HistoryIds(_, _)
HistoryIds(points, seen) ==
    IF points = <<>> THEN <<>>
    ELSE IF Head(points).id \in seen THEN HistoryIds(Tail(points), seen)
    ELSE <<Head(points).id>> \o HistoryIds(Tail(points), seen \cup {Head(points).id})

History(points, id) == SelectSeq(points, LAMBDA p : p.id = id)

\* Array.prototype.sort is stable: a point goes after the points that do
\* not compare greater
RECURSIVE InsertPoint(_, _)
InsertPoint(sorted, p) ==
    IF sorted = <<>> THEN <<p>>
    ELSE IF sorted[Len(sorted)].timestamp <= p.timestamp THEN Append(sorted, p)
    ELSE Append(InsertPoint(SubSeq(sorted, 1, Len(sorted) - 1), p), sorted[Len(sorted)])

RECURSIVE SortByTimestamp(_)
SortByTimestamp(points) ==
    IF points = <<>> THEN <<>>
    ELSE InsertPoint(SortByTimestamp(SubSeq(points, 1, Len(points) - 1)),
                     points[Len(points)])

LatestOf(points) == points[Len(points)]

TrackOf(points) == downsample(points, EveryNth)

MakeFlight(id, points) ==
    [id |-> id, latest |-> LatestOf(points), track |-> TrackOf(points)]

loadBalloonFlights(snapshots, now) ==
    LET points == AllPoints(snapshots, now, 0)
        ids == HistoryIds(points, {})
    IN  [k \in 1..Len(ids) |->
            MakeFlight(ids[k], SortByTimestamp(History(points, ids[k])))]

(***************************************************************************)
(* computeBounds                                                           *)
(***************************************************************************)
RECURSIVE TrackPoints(_, _)
TrackPoints(flights, k) ==
    IF k > Len(flights) THEN <<>>
    ELSE flights[k].track \o TrackPoints(flights, k + 1)

RECURSIVE ScanPoints(_, _)
ScanPoints(points, box) ==
    IF points = <<>> THEN box
    ELSE LET p == Head(points)
         IN  ScanPoints(Tail(points),
                        [minLat |-> JsMin(box.minLat, p.lat),
                         maxLat |-> JsMax(box.maxLat, p.lat),
                         minLon |-> JsMin(box.minLon, p.lon),
                         maxLon |-> JsMax(box.maxLon, p.lon)])

ClampLow(x, lo) == JsMax(JsAdd(x, -MARGIN), Num(lo))
ClampHigh(x, hi) == JsMin(JsAdd(x, MARGIN), Num(hi))

computeBounds(flights) ==
    LET box == ScanPoints(TrackPoints(flights, 1),
                          [minLat |-> Num(90), maxLat |-> Num(-90),
                           minLon |-> Num(180), maxLon |-> Num(-180)])
    IN  [minLat |-> ClampLow(box.minLat, -89),
         maxLat |-> ClampHigh(box.maxLat, 89),
         minLon |-> ClampLow(box.minLon, -179),
         maxLon |-> ClampHigh(box.maxLon, 179)]

(***************************************************************************)
(* fetchFires: the response is delimited text, here the lines it splits    *)
(* into and the cells each line splits into.  A cell is a numeral          *)
(* (NumCell) or other text (TextCell).                                     *)
(***************************************************************************)
NumCell(n) == [type |-> "string", num |-> n]
TextCell(s) == [type |-> "string", text |-> s]
NaN == [type |-> "number", nan |-> TRUE]
HttpText(lines) == [kind |-> "http", ok |-> TRUE, lines |-> lines]
HttpStatusError == [kind |-> "http", ok |-> FALSE]

\* parseFloat(cell), Number(cell)
ParseFloat(cell) == IF "num" \in DOMAIN cell THEN Num(cell.num) ELSE NaN

\* obj[h] after headers.forEach((h, i) => (obj[h] = cols[i])): the last
\* column of that name wins, and a short line leaves undefined
Column(headers, cols, name) ==
    LET at == {i \in 1..Len(headers) : headers[i] = name}
    IN  IF at = {} THEN Undefined
        ELSE LET i == CHOOSE j \in at : \A k \in at : k <= j
             IN  IF i <= Len(cols) THEN cols[i] ELSE Undefined

Truthy(cell) == cell # Undefined /\ cell # TextCell("")

ParseFireLine(headers, cols) ==
    LET lat == ParseFloat(Column(headers, cols, "latitude"))
        lon == ParseFloat(Column(headers, cols, "longitude"))
        brightness == Column(headers, cols, "brightness")
    IN  IF lat = NaN \/ lon = NaN THEN Null
        ELSE [lat |-> lat, lon |-> lon,
              brightness |-> IF Truthy(brightness) THEN ParseFloat(brightness) ELSE Null,
              confidence |-> Nullish(Column(headers, cols, "confidence"), Null),
              acq_date |-> Nullish(Column(headers, cols, "acq_date"), Null),
              acq_time |-> Nullish(Column(headers, cols, "acq_time"), Null),
              satellite |-> Nullish(Column(headers, cols, "satellite"), Null)]

RECURSIVE ParseFireLines(_, _, _)
ParseFireLines(headers, lines, i) ==
    IF i > Len(lines) THEN <<>>
    ELSE LET fire == ParseFireLine(headers, lines[i])
         IN  (IF fire = Null THEN <<>> ELSE <<fire>>)
             \o ParseFireLines(headers, lines, i + 1)

FirstN(seq, n) == SubSeq(seq, 1, IF Len(seq) < n THEN Len(seq) ELSE n)

\* fetchFires once the request to the feed has settled
parseFires(response) ==
    IF response.kind = "transport_error" THEN <<>>
    ELSE IF ~response.ok THEN <<>>
    ELSE IF Len(response.lines) <= 1 THEN <<>>
    ELSE FirstN(ParseFireLines(response.lines[1], response.lines, 2), MAX_FIRES)

(***************************************************************************)
(* haversineKm.  The great-circle distance is a real; the model keeps      *)
(* what the correlator reads from it: NaN for a coordinate that is not     *)
(* finite, else a non-negative number that is 0 exactly for equal          *)
(* positions (kilometres along the meridian plus along the parallel).      *)
(***************************************************************************)
Abs(n) == IF n < 0 THEN -n ELSE n

haversineKm(lat1, lon1, lat2, lon2) ==
    IF IsFiniteNum(lat1) /\ IsFiniteNum(lon1) /\ IsFiniteNum(lat2) /\ IsFiniteNum(lon2)
    THEN Num(111 * (Abs(lat2.v - lat1.v) + Abs(lon2.v - lon1.v)))
    ELSE NaN

\* d < minDist
JsLess(d, m) == d # NaN /\ m # NaN /\ d # m /\ JsLE(d, m)

(***************************************************************************)
(* summarizeFlights                                                        *)
(***************************************************************************)
RECURSIVE ClosestFire(_, _, _)
ClosestFire(latest, fires, best) ==
    IF fires = <<>> THEN best
    ELSE LET fire == Head(fires)
             d == haversineKm(latest.lat, latest.lon, fire.lat, fire.lon)
         IN  ClosestFire(latest, Tail(fires),
                         IF JsLess(d, best.minDist)
                         THEN [minDist |-> d, closest |-> fire]
                         ELSE best)

FireSummary(f, fires) ==
    LET best == ClosestFire(f.latest, fires, [minDist |-> PosInf, closest |-> Null])
    IN  [min_distance_km |-> IF IsFiniteNum(best.minDist) THEN best.minDist ELSE Null,
         closest_fire |-> best.closest]

summarizeFlights(flights, fires) ==
    [k \in 1..Len(flights) |->
        [id |-> flights[k].id, latest |-> flights[k].latest, track |-> flights[k].track,
         fire_summary |-> FireSummary(flights[k], fires)]]

(***************************************************************************)
(* buildScene: the scene it returns when no flight was reconstructed, and  *)
(* the scene it returns at instant t otherwise                             *)
(***************************************************************************)
EmptyScene == [flights |-> <<>>, fires |-> <<>>, bounds |-> Null]

FullScene(flights, fires, bounds, t) ==
    [flights |-> summarizeFlights(flights, fires), fires |-> fires,
     bounds |-> bounds, generated_at |-> t]

(***************************************************************************)
(* State.  A slot is one invocation of the GET /api/scene handler that is  *)
(* in flight; NumReq of them can overlap.                                  *)
(***************************************************************************)
VARIABLES
    clock,          \* Date.now()
    ticks,          \* clock advances so far
    firmsKey,       \* whether process.env.FIRMS_KEY is set
    cachedScene,    \* the module-level cachedScene: Null or a scene
    lastSceneTime,  \* the module-level lastSceneTime
    pc,             \* per slot: "idle", "fetching" (awaiting Promise.all) or
                    \* "fires" (awaiting the fire feed)
    reqNow,         \* per slot: the handler's const now
    snaps,          \* per slot and hour: the state of fetchHourSnapshot(hour)
    held,           \* per slot: flights and bounds across the await of fetchFires
    fireReqs,       \* per slot: requests its build has issued to the fire feed
    sent,           \* history: the response sent last, Null before the first
    lastHit,        \* history, kept in SpecReads only: the last response served
                    \* from the cache
    feed,           \* pipeline specification: the response of each hourly GET
    loaded,         \* pipeline specification: what loadBalloonFlights returned
    region,         \* pipeline specification: what computeBounds returned
    raw,            \* pipeline specification: a raw record and its index
    point           \* pipeline specification: what normalizePoint returned

vars == <<clock, ticks, firmsKey, cachedScene, lastSceneTime, pc, reqNow, snaps,
          held, fireReqs, sent, lastHit, feed, loaded, region, raw, point>>

pipelineVars == <<feed, loaded, region, raw, point>>

Req == 1..NumReq
Hours == 0..(NumHours - 1)

NotIssued == [type |-> "not_issued"]
Pending == [type |-> "pending"]
NotRun == [type |-> "not_run"]
Unrecorded == [type |-> "unrecorded"]
NoHit == [type |-> "no_hit"]

(***************************************************************************)
(* The documents the feeds serve.                                          *)
(***************************************************************************)
\* [[10.0, 20.0, 100], [11.0, 21.0]]
TwoBalloons == Arr(<<Arr(<<Num(10), Num(20), Num(100)>>), Arr(<<Num(11), Num(21)>>)>>)
\* [[90, 180]]
PoleBalloon == Arr(<<Arr(<<Num(90), Num(180)>>)>>)
\* [[1e999, 20], null, {"id": "balloon-0", "latitude": -5, "lon": 7, "alt": 3}, "x"]
OddBalloons ==
    Arr(<<Arr(<<PosInf, Num(20)>>), Null,
          Obj([id |-> Str("balloon-0"), latitude |-> Num(-5), lon |-> Num(7), alt |-> Num(3)]),
          Str("x")>>)
\* {"error": "x"}
ErrorDocument == Obj([error |-> Str("x")])

\* what an hourly GET can come to in the server specification
HourResponses ==
    {TransportError, HttpError(TwoBalloons), Unparsable, HttpBody(TwoBalloons)}

\* what an hourly GET can come to in the pipeline specification
PipelineResponses ==
    HourResponses \cup {HttpBody(ErrorDocument), HttpBody(PoleBalloon), HttpBody(OddBalloons)}

FireHeader == <<"latitude", "longitude", "brightness">>
\* what the GET of the fire feed can come to
FireResponses ==
    {TransportError, HttpStatusError, HttpText(<<FireHeader>>),
     HttpText(<<FireHeader, <<NumCell(12), NumCell(22), NumCell(300)>>,
                <<TextCell("n/a"), NumCell(22)>> >>)}

ClockSteps == {1, TTL - 1}

(***************************************************************************)
(* Init                                                                    *)
(***************************************************************************)
NoFetches == [h \in Hours |-> NotIssued]

ServerInit ==
    /\ clock = StartTime
    /\ ticks = 0
    /\ cachedScene = Null
    /\ lastSceneTime = 0
    /\ pc = [r \in Req |-> "idle"]
    /\ reqNow = [r \in Req |-> 0]
    /\ snaps = [r \in Req |-> NoFetches]
    /\ held = [r \in Req |-> Null]
    /\ fireReqs = [r \in Req |-> 0]
    /\ sent = Null

PipelineIdle ==
    /\ feed = NotRun
    /\ loaded = NotRun
    /\ region = NotRun
    /\ raw = NotRun
    /\ point = NotRun

Init ==
    /\ ServerInit
    /\ firmsKey \in BOOLEAN
    /\ lastHit = Unrecorded
    /\ PipelineIdle

(***************************************************************************)
(* app.get("/api/scene")                                                   *)
(***************************************************************************)
\* cachedScene && now - lastSceneTime < 5 * 60 * 1000
Fresh(now) == cachedScene # Null /\ now - lastSceneTime < TTL

\* Promise.race in the place of Promise.all: resolved with the first fetch
SomeSettled(s) == \E h \in DOMAIN s : s[h] # Pending /\ s[h] # NotIssued

\* Promise.all(hours.map(fetchHourSnapshot)) has resolved
AllSettled(s) == \A h \in DOMAIN s : s[h] # Pending /\ s[h] # NotIssued

\* the snapshots array Promise.all resolves to
SnapshotArray(s) == [k \in 1..NumHours |-> s[k - 1]]

\* fetchFires without its test of the key
KeyNeverMissing == FALSE

\* if (!key)
KeyMissing == ~firmsKey

\* the time stored with the scene: lastSceneTime = now
StoredTime(r) == reqNow[r]

\* the handler returns: its locals are gone
Return(r) ==
    /\ pc' = [pc EXCEPT ![r] = "idle"]
    /\ reqNow' = [reqNow EXCEPT ![r] = 0]
    /\ snaps' = [snaps EXCEPT ![r] = NoFetches]
    /\ held' = [held EXCEPT ![r] = Null]
    /\ fireReqs' = [fireReqs EXCEPT ![r] = 0]

\* cachedScene = scene; lastSceneTime = now; res.json(scene)
Respond(r, scene, requests) ==
    /\ cachedScene' = scene
    /\ lastSceneTime' = StoredTime(r)
    /\ sent' = [status |-> 200, body |-> scene, now |-> reqNow[r], fromCache |-> FALSE,
                fireReqs |-> requests]
    /\ Return(r)

\* a catch block that would record the time of the failed request
AfterCatchPartial(r) == [scene |-> cachedScene, time |-> reqNow[r]]

\* the cache as the catch block leaves it
AfterCatch(r) == [scene |-> cachedScene, time |-> lastSceneTime]

\* An error nothing in buildScene expects (the runtime out of memory, say)
\* makes the awaited build reject.
\* catch (err): res.status(500).json({error: "Failed to build scene"})
RespondError(r) ==
    /\ cachedScene' = AfterCatch(r).scene
    /\ lastSceneTime' = AfterCatch(r).time
    /\ sent' = [status |-> 500, body |-> [error |-> "Failed to build scene"],
                now |-> reqNow[r], fromCache |-> FALSE, fireReqs |-> fireReqs[r]]
    /\ Return(r)

\* a request takes the first free slot
FreeSlot(r) == pc[r] = "idle" /\ \A q \in Req : q < r => pc[q] # "idle"

\* the response sent last has been observed
Quiet == sent = Null

\* a request arrives while the cache is fresh: return res.json(cachedScene)
ServeCached(r) ==
    /\ Quiet
    /\ FreeSlot(r)
    /\ Fresh(clock)
    /\ sent' = [status |-> 200, body |-> cachedScene, now |-> clock, fromCache |-> TRUE,
                fireReqs |-> 0]
    /\ lastHit' = IF lastHit = Unrecorded THEN Unrecorded
                  ELSE [window |-> lastSceneTime, scene |-> cachedScene]
    /\ UNCHANGED <<clock, ticks, firmsKey, cachedScene, lastSceneTime, pc, reqNow, snaps,
                   held, fireReqs>>
    /\ UNCHANGED pipelineVars

\* a request arrives while the cache is stale: buildScene starts and
\* loadBalloonFlights issues the hourly fetches
StartBuild(r) ==
    /\ Quiet
    /\ FreeSlot(r)
    /\ ~Fresh(clock)
    /\ reqNow' = [reqNow EXCEPT ![r] = clock]
    /\ pc' = [pc EXCEPT ![r] = "fetching"]
    /\ snaps' = [snaps EXCEPT ![r] = [h \in Hours |-> Pending]]
    /\ UNCHANGED <<clock, ticks, firmsKey, cachedScene, lastSceneTime, held, fireReqs,
                   sent, lastHit>>
    /\ UNCHANGED pipelineVars

\* buildScene from the point where the snapshots are there, up to its next
\* await of the network or its return
AfterSnapshots(r, settled) ==
    LET flights == loadBalloonFlights(SnapshotArray(settled), clock)
    IN  IF Len(flights) = 0
        THEN Respond(r, EmptyScene, 0)
        ELSE LET bounds == computeBounds(flights)
             IN  IF KeyMissing
                 THEN Respond(r, FullScene(flights, <<>>, bounds, clock), 0)
                 ELSE /\ pc' = [pc EXCEPT ![r] = "fires"]
                      /\ snaps' = [snaps EXCEPT ![r] = settled]
                      /\ held' = [held EXCEPT ![r] = [flights |-> flights, bounds |-> bounds]]
                      /\ fireReqs' = [fireReqs EXCEPT ![r] = @ + 1]
                      /\ UNCHANGED <<cachedScene, lastSceneTime, reqNow, sent>>

\* one hourly fetch of slot r settles, and others are still pending
SettleSnapshot(r, h) ==
    /\ Quiet
    /\ pc[r] = "fetching"
    /\ snaps[r][h] = Pending
    /\ \E response \in HourResponses :
          LET settled == [snaps[r] EXCEPT ![h] = fetchHourSnapshot(response)]
          IN  /\ ~AllSettled(settled)
              /\ snaps' = [snaps EXCEPT ![r] = settled]
    /\ UNCHANGED <<clock, ticks, firmsKey, cachedScene, lastSceneTime, pc, reqNow, held,
                   fireReqs, sent, lastHit>>
    /\ UNCHANGED pipelineVars

\* the last hourly fetch of slot r settles: Promise.all resolves and the
\* build goes on, or throws
SettleLastSnapshot(r, h) ==
    /\ Quiet
    /\ pc[r] = "fetching"
    /\ snaps[r][h] = Pending
    /\ \E response \in HourResponses :
          LET settled == [snaps[r] EXCEPT ![h] = fetchHourSnapshot(response)]
          IN  /\ AllSettled(settled)
              /\ \/ AfterSnapshots(r, settled)
                 \/ RespondError(r)
    /\ UNCHANGED <<clock, ticks, firmsKey, lastHit>>
    /\ UNCHANGED pipelineVars

\* the fire feed's response arrives: the scene is assembled, stored and
\* sent, or the build throws
SettleFires(r) ==
    /\ Quiet
    /\ pc[r] = "fires"
    /\ \/ \E response \in FireResponses :
             Respond(r, FullScene(held[r].flights, parseFires(response),
                                  held[r].bounds, clock), fireReqs[r])
       \/ RespondError(r)
    /\ UNCHANGED <<clock, ticks, firmsKey, lastHit>>
    /\ UNCHANGED pipelineVars

\* time passes
Tick ==
    /\ Quiet
    /\ ticks < MaxTicks
    /\ \E d \in ClockSteps : clock' = clock + d
    /\ ticks' = ticks + 1
    /\ UNCHANGED <<firmsKey, cachedScene, lastSceneTime, pc, reqNow, snaps, held,
                   fireReqs, sent, lastHit>>
    /\ UNCHANGED pipelineVars

\* the response is on the wire; the history variable is cleared
Flush ==
    /\ sent # Null
    /\ sent' = Null
    /\ UNCHANGED <<clock, ticks, firmsKey, cachedScene, lastSceneTime, pc, reqNow, snaps,
                   held, fireReqs, lastHit>>
    /\ UNCHANGED pipelineVars

Next ==
    \/ \E r \in Req : ServeCached(r)
    \/ \E r \in Req : StartBuild(r)
    \/ \E r \in Req : \E h \in Hours : SettleSnapshot(r, h)
    \/ \E r \in Req : \E h \in Hours : SettleLastSnapshot(r, h)
    \/ \E r \in Req : SettleFires(r)
    \/ Tick
    \/ Flush

Spec == Init /\ [][Next]_vars

(***************************************************************************)
(* The server when requests do not overlap: a request arrives only when    *)
(* no handler is in flight.                                                *)
(***************************************************************************)
NoneInFlight == \A r \in Req : pc[r] = "idle"

NextSeq ==
    \/ \E r \in Req : NoneInFlight /\ ServeCached(r)
    \/ \E r \in Req : NoneInFlight /\ StartBuild(r)
    \/ \E r \in Req : \E h \in Hours : SettleSnapshot(r, h)
    \/ \E r \in Req : \E h \in Hours : SettleLastSnapshot(r, h)
    \/ \E r \in Req : SettleFires(r)
    \/ Tick
    \/ Flush

SpecSeq == Init /\ [][NextSeq]_vars

(***************************************************************************)
(* The server with the history of cache hits kept.                         *)
(***************************************************************************)
InitReads ==
    /\ ServerInit
    /\ firmsKey = FALSE
    /\ lastHit = NoHit
    /\ PipelineIdle

NextReads ==
    \/ \E r \in Req : ServeCached(r)
    \/ \E r \in Req : StartBuild(r)
    \/ \E r \in Req : \E h \in Hours : SettleSnapshot(r, h)
    \/ \E r \in Req : \E h \in Hours : SettleLastSnapshot(r, h)
    \/ Tick
    \/ Flush

SpecReads == InitReads /\ [][NextReads]_vars

(***************************************************************************)
(* The pipeline on its own: loadBalloonFlights and computeBounds applied   *)
(* to every feed of FeedHours hourly responses, and normalizePoint         *)
(* applied to every raw record of RawRecords.                              *)
(***************************************************************************)
FeedIndex == 1..FeedHours

CoordValues == {Num(5), PosInf, Str("7"), Null}
RawFields == {"id", "lat", "latitude", "lon", "longitude", "altitude"}

RawArrays ==
    {Arr(items) : items \in UNION {[1..n -> CoordValues] : n \in 0..3}}
RawObjects ==
    {Obj(fields) : fields \in UNION {[F -> CoordValues] : F \in SUBSET RawFields}}
RawRecords ==
    RawArrays \cup RawObjects \cup {Null, Str("x"), Num(3), [type |-> "boolean", v |-> TRUE]}

ServerIdle ==
    /\ ServerInit
    /\ firmsKey = FALSE
    /\ lastHit = Unrecorded

InitPipeline ==
    /\ ServerIdle
    /\ loaded = NotRun
    /\ region = NotRun
    /\ point = NotRun
    /\ \/ feed \in [hours : [FeedIndex -> PipelineResponses]] /\ raw = NotRun
       \/ feed = NotRun /\ raw \in [record : RawRecords, index : 0..1]

serverVars == <<clock, ticks, firmsKey, cachedScene, lastSceneTime, pc, reqNow, snaps,
                held, fireReqs, sent, lastHit>>

\* the snapshots array of a feed: fetchHourSnapshot of each hour's response
FeedSnapshots(f) == [k \in FeedIndex |-> fetchHourSnapshot(f.hours[k])]

RunLoadBalloonFlights ==
    /\ feed # NotRun
    /\ loaded = NotRun
    /\ loaded' = [flights |-> loadBalloonFlights(FeedSnapshots(feed), clock)]
    /\ UNCHANGED <<feed, region, raw, point>>
    /\ UNCHANGED serverVars

\* buildScene computes the bounds of a non-empty set of flights
RunComputeBounds ==
    /\ loaded # NotRun
    /\ Len(loaded.flights) > 0
    /\ region = NotRun
    /\ region' = computeBounds(loaded.flights)
    /\ UNCHANGED <<feed, loaded, raw, point>>
    /\ UNCHANGED serverVars

RunNormalizePoint ==
    /\ raw # NotRun
    /\ point = NotRun
    /\ point' = normalizePoint(raw.record, clock, raw.index)
    /\ UNCHANGED <<feed, loaded, region, raw>>
    /\ UNCHANGED serverVars

NextPipeline ==
    \/ RunLoadBalloonFlights
    \/ RunComputeBounds
    \/ RunNormalizePoint

SpecPipeline == InitPipeline /\ [][NextPipeline]_vars

(***************************************************************************)
(* Properties of the pipeline, under SpecPipeline.                         *)
(***************************************************************************)
NonDecreasing(track) ==
    \A i \in 1..(Len(track) - 1) : track[i].timestamp <= track[i + 1].timestamp

\* the tracks loadBalloonFlights emits are sorted (the part of C5 that holds)
TracksSorted ==
    loaded # NotRun =>
        \A k \in 1..Len(loaded.flights) : NonDecreasing(loaded.flights[k].track)

\* C5: every Flight emitted by loadBalloonFlights has a track sorted
\* non-decreasing by timestamp, and its latest is the last element of that
\* (possibly downsampled) track, the point of the track with the maximum
\* timestamp.
C5_LatestIsLastOfTrack ==
    loaded # NotRun =>
        \A k \in 1..Len(loaded.flights) :
            LET f == loaded.flights[k]
            IN  /\ NonDecreasing(f.track)
                /\ f.latest = f.track[Len(f.track)]
                /\ \A i \in 1..Len(f.track) : f.track[i].timestamp <= f.latest.timestamp

InRange(x, lo, hi) == IsFiniteNum(x) /\ lo <= x.v /\ x.v <= hi

\* C6: the region computeBounds returns for a non-empty set of flights has
\* minLat < maxLat and minLon < maxLon, its latitudes in [-90, 90] and its
\* longitudes in [-180, 180].
C6_BoundsOrderedAndInRange ==
    region # NotRun =>
        /\ InRange(region.minLat, -90, 90)
        /\ InRange(region.maxLat, -90, 90)
        /\ InRange(region.minLon, -180, 180)
        /\ InRange(region.maxLon, -180, 180)
        /\ region.minLat.v < region.maxLat.v
        /\ region.minLon.v < region.maxLon.v

\* the coordinate a record of the object shape carries under either name
Carried(rec, a, b) ==
    IF a \in DOMAIN rec.fields /\ rec.fields[a] # Null THEN rec.fields[a]
    ELSE IF b \in DOMAIN rec.fields THEN rec.fields[b]
    ELSE Undefined

\* a record with two finite numeric coordinates in one of the two shapes
CarriesFiniteCoords(rec) ==
    CASE rec.type = "array" ->
            /\ Len(rec.items) >= 2
            /\ IsFiniteNum(rec.items[1])
            /\ IsFiniteNum(rec.items[2])
      [] rec.type = "object" ->
            /\ IsFiniteNum(Carried(rec, "lat", "latitude"))
            /\ IsFiniteNum(Carried(rec, "lon", "longitude"))
      [] OTHER -> FALSE

\* C7: normalizePoint yields a Point for exactly the raw records that carry
\* two finite numeric coordinates in an accepted shape, and null for every
\* other record.
C7_PointIffFiniteCoords ==
    point # NotRun => (point # Null <=> CarriesFiniteCoords(raw.record))

\* the hours of the feed whose fetch succeeded with an array
HourFailed(response) ==
    \/ response.kind = "transport_error"
    \/ ~response.ok
    \/ ~response.json
    \/ response.body.type # "array"

GoodHours == {k \in FeedIndex : ~HourFailed(feed.hours[k])}

\* the points the records of the good hours normalize to
HourPoints(k) ==
    LET items == feed.hours[k].body.items
    IN  {normalizePoint(items[i], clock - (k - 1) * HourMs, i - 1) : i \in 1..Len(items)}

GoodPoints == UNION {HourPoints(k) : k \in GoodHours} \ {Null}

\* C8: whatever hours fail, loadBalloonFlights emits exactly one Flight per
\* identity found in the hours that did not fail, with points of those hours
\* only; when only hour 0 succeeds, with [[10, 20, 100], [11, 21]], it emits
\* 2 Flights with 1-point tracks, of altitude 100 and null.
C8_FailureIsolation ==
    loaded # NotRun =>
        LET flights == loaded.flights
            ids == {pt.id : pt \in GoodPoints}
        IN  /\ Len(flights) = Cardinality(ids)
            /\ {flights[k].id : k \in 1..Len(flights)} = ids
            /\ \A k \in 1..Len(flights) :
                  /\ flights[k].latest \in GoodPoints
                  /\ \A i \in 1..Len(flights[k].track) : flights[k].track[i] \in GoodPoints
                  /\ \A i \in 1..Len(flights[k].track) : flights[k].track[i].id = flights[k].id
            /\ (GoodHours = {1} /\ feed.hours[1] = HttpBody(TwoBalloons)) =>
                  /\ Len(flights) = 2
                  /\ Len(flights[1].track) = 1 /\ flights[1].track[1].altitude = Num(100)
                  /\ Len(flights[2].track) = 1 /\ flights[2].track[1].altitude = Null

\* only hour 0 succeeds, the others fail in four different ways, and the
\* flights are there
C8_Witness ==
    /\ loaded # NotRun
    /\ GoodHours = {1}
    /\ feed.hours[1] = HttpBody(TwoBalloons)
    /\ {TransportError, HttpError(TwoBalloons), Unparsable, HttpBody(ErrorDocument)}
          \subseteq {feed.hours[k] : k \in FeedIndex}
    /\ Len(loaded.flights) = 2

(***************************************************************************)
(* Properties of the handler and its cache.                                *)
(***************************************************************************)
Building == {r \in Req : pc[r] # "idle"}

\* C3: under any interleaving of concurrent requests at most one buildScene
\* execution is in flight at any time.
C3_SingleFlight == Cardinality(Building) <= 1

\* a build of slot r has run to its end and its response is sent
Completes(r) == pc[r] # "idle" /\ pc'[r] = "idle"

HasGeneratedAt(scene) == scene # Null /\ "generated_at" \in DOMAIN scene

\* C2: with requests that do not overlap, the scene a rebuild returns and
\* caches carries a generated_at, strictly later than the generated_at of
\* the scene cached before, whatever the build's outcome.
C2_RebuildAdvancesGeneratedAt ==
    [][\A r \in Req :
          (Completes(r) /\ sent'.status = 200) =>
              /\ cachedScene' = sent'.body
              /\ HasGeneratedAt(cachedScene')
              /\ cachedScene # Null =>
                    /\ HasGeneratedAt(cachedScene)
                    /\ cachedScene'.generated_at > cachedScene.generated_at]_vars

\* C1: a request that arrives while the cache is fresh is answered with the
\* cached scene, starts no build and leaves the cache alone; and two
\* consecutive cache hits in the window of one stored build time return the
\* same scene.
C1_FreshReadsIdentical ==
    [][(sent = Null /\ sent' # Null /\ sent'.fromCache) =>
          /\ sent'.body = cachedScene
          /\ UNCHANGED <<cachedScene, lastSceneTime, pc, snaps, fireReqs>>
          /\ (lastHit # NoHit /\ lastHit'.window = lastHit.window) =>
                lastHit'.scene = lastHit.scene]_vars

\* the part of C1 that is one step of the handler
FreshReadServesCache ==
    [][(sent = Null /\ sent' # Null /\ sent'.fromCache) =>
          /\ sent'.body = cachedScene
          /\ UNCHANGED <<cachedScene, lastSceneTime, pc, snaps, fireReqs>>]_vars

\* the cache was written by the build of slot r, scene and time together
WrittenBy(r) ==
    /\ Completes(r)
    /\ sent'.status = 200
    /\ cachedScene' = sent'.body
    /\ lastSceneTime' = reqNow[r]

\* a failed request's step: status 500, an error indicator, the cache kept
FailureKeepsCache ==
    (sent = Null /\ sent' # Null /\ sent'.status = 500) =>
        /\ "error" \in DOMAIN sent'.body
        /\ UNCHANGED <<cachedScene, lastSceneTime>>

\* a step that changes the cache is the end of a successful build
WrittenTogether ==
    (cachedScene' # cachedScene \/ lastSceneTime' # lastSceneTime) =>
        \E r \in Req : WrittenBy(r)

\* C4: a request whose build fails is answered with status 500 and an error
\* indicator and leaves cachedScene and lastSceneTime as they were; the two
\* are only ever written together, by one successful build, so that a scene
\* is cached exactly when a build time is stored.
C4_AtomicReplaceOrKeep ==
    /\ [](cachedScene = Null <=> lastSceneTime = 0)
    /\ [][FailureKeepsCache /\ WrittenTogether]_vars

\* a build has failed while a scene of an earlier request is cached
C4_Witness ==
    /\ sent # Null
    /\ sent.status = 500
    /\ cachedScene # Null
    /\ lastSceneTime < sent.now

NoFireSummary == [min_distance_km |-> Null, closest_fire |-> Null]

\* a scene with no fires in it and none in any flight's summary
Fireless(scene) ==
    /\ scene.fires = <<>>
    /\ \A k \in 1..Len(scene.flights) : scene.flights[k].fire_summary = NoFireSummary

\* C9: without a fire-feed key no build issues a request to the fire feed
\* or waits for one, and every scene built and served has no fires and a
\* fire_summary of null distance and null closest fire in every flight.
C9_NoKeyNoFires ==
    ~firmsKey =>
        /\ \A r \in Req : fireReqs[r] = 0 /\ pc[r] # "fires"
        /\ cachedScene # Null => Fireless(cachedScene)
        /\ (sent # Null /\ sent.status = 200) => (sent.fireReqs = 0 /\ Fireless(sent.body))

\* without a key a build has succeeded with flights in its scene
C9_Witness ==
    /\ ~firmsKey
    /\ sent # Null
    /\ sent.status = 200
    /\ ~sent.fromCache
    /\ Len(sent.body.flights) > 0

\* every hourly fetch of slot r has succeeded or failed
SnapshotsComplete(r) ==
    \A h \in Hours : snaps[r][h] # Pending /\ snaps[r][h] # NotIssued

\* C10: a build issues its request to the fire feed only after all of its
\* hourly fetches have completed, at most once, and not at all when no
\* flight was reconstructed.
C10_FiresAfterSnapshots ==
    /\ \A r \in Req :
          /\ fireReqs[r] <= 1
          /\ (pc[r] = "fires" \/ fireReqs[r] > 0) =>
                /\ SnapshotsComplete(r)
                /\ Len(held[r].flights) > 0
    /\ (sent # Null /\ ~sent.fromCache) =>
          /\ sent.fireReqs <= 1
          /\ (sent.status = 200 /\ sent.body.flights = <<>>) => sent.fireReqs = 0

\* a build waits for the fire feed, one hour having failed and one succeeded
C10_Witness ==
    \E r \in Req :
        /\ pc[r] = "fires"
        /\ fireReqs[r] = 1
        /\ \E h \in Hours : snaps[r][h] = Null
        /\ \E h \in Hours : snaps[r][h] = TwoBalloons

\* C11: when a stale request's build completes, the build time stored with
\* the scene is the time of storing, so that the cache is fresh right after
\* the request returns, however long the build took.
C11_StoredTimeIsTimeOfStoring ==
    [][\A r \in Req :
          (Completes(r) /\ sent'.status = 200) =>
              /\ lastSceneTime' = clock
              /\ clock - lastSceneTime' < TTL]_vars

\* a point whose position the clamps of computeBounds leave room for
WithinClamps(p) == InRange(p.lat, -89, 89) /\ InRange(p.lon, -179, 179)

\* the region encloses point p
Encloses(box, p) ==
    /\ JsLE(box.minLat, p.lat) /\ JsLE(p.lat, box.maxLat)
    /\ JsLE(box.minLon, p.lon) /\ JsLE(p.lon, box.maxLon)

\* the region encloses the points of the emitted tracks (the part of C12
\* that holds)
BoundsEncloseTracks ==
    region # NotRun =>
        \A k \in 1..Len(loaded.flights) :
            \A i \in 1..Len(loaded.flights[k].track) :
                WithinClamps(loaded.flights[k].track[i]) =>
                    Encloses(region, loaded.flights[k].track[i])

\* C12: the bounding region encloses every point of every flight, each
\* flight's latest position included, as far as the point lies in
\* [-89, 89] x [-179, 179].
C12_BoundsEnclosePoints ==
    region # NotRun =>
        \A k \in 1..Len(loaded.flights) :
            LET f == loaded.flights[k]
            IN  /\ WithinClamps(f.latest) => Encloses(region, f.latest)
                /\ \A i \in 1..Len(f.track) :
                      WithinClamps(f.track[i]) => Encloses(region, f.track[i])

\* C13: under any interleaving of overlapping requests the stored build
\* time never decreases, and the cached scene is never replaced by the
\* result of a request that started earlier than the request whose result
\* is cached.
C13_StoredTimeMonotone ==
    [][/\ lastSceneTime' >= lastSceneTime
       /\ \A r \in Req :
             (Completes(r) /\ cachedScene' # cachedScene) => reqNow[r] >= lastSceneTime]_vars

====
